---- MODULE Spec2Model ----
(***************************************************************************)
(* Model of scripts/run.py, the database migration generator: two schema   *)
(* files are loaded, diffed into an ordered list of operations, checked    *)
(* against the destructive-change policy and rendered either as an up/down *)
(* SQL migration (postgres or sqlite) or as a dry-run summary.             *)
(*                                                                         *)
(* JSON values are records [k, n, s]: k is the JSON kind ("str", "num",    *)
(* "bool", "null") or "absent" for a key that is not in the dict, n the    *)
(* numeric value of a number or boolean, s the text of a string.           *)
(***************************************************************************)
EXTENDS Integers, Sequences, FiniteSets, TLC

VARIABLES
    pc,           \* position in main
    args,         \* the parsed command line
    files,        \* the content of the two schema files
    source,       \* load_schema(args.from_file)
    target,       \* load_schema(args.to_file)
    operations,   \* diff_schemas(source, target)
    output,       \* the text main writes
    output_lines, \* the lines of output, each with the operation it renders
    stdout,       \* text printed to standard output
    stderr,       \* lines printed to standard error
    out_file,     \* the content of the --out file, None while unwritten
    exit_code,    \* None while main runs
    calls         \* how often render_sql, dry_run_summary and the emitters ran

vars == <<pc, args, files, source, target, operations, output, output_lines,
          stdout, stderr, out_file, exit_code, calls>>

\* Python's None and a value that is not None
None == <<>>
Some(v) == <<v>>

-----------------------------------------------------------------------------
(* Bounds *)

\* integer defaults range over 1..MaxDefault
MaxDefault == 1

\* the multi-table schemas have at most MaxCols columns over all their tables
MaxCols == 3

-----------------------------------------------------------------------------
(* JSON values and the Python operations the program applies to them *)

Absent == [k |-> "absent", n |-> 0, s |-> ""]
JNull == [k |-> "null", n |-> 0, s |-> ""]
JTrue == [k |-> "bool", n |-> 1, s |-> ""]
JFalse == [k |-> "bool", n |-> 0, s |-> ""]
JNum(i) == [k |-> "num", n |-> i, s |-> ""]
JStr(t) == [k |-> "str", n |-> 0, s |-> t]

\* bool(v), as evaluated by `if v` / `v and ...`
Truthy(v) ==
    CASE v.k = "str" -> v.s # ""
      [] v.k = "num" -> v.n # 0
      [] v.k = "bool" -> v.n = 1
      [] OTHER -> FALSE

\* d.get(key) : a missing key reads as None
Get(d, key) == IF d[key].k = "absent" THEN JNull ELSE d[key]

\* d.get(key, True)
GetOrTrue(d, key) == IF d[key].k = "absent" THEN JTrue ELSE d[key]

\* v is False
IsFalse(v) == v.k = "bool" /\ v.n = 0

\* v is not None, for a key that is present
IsNone(v) == v.k = "null"

\* a == b on JSON scalars: bool is a subclass of int, so True == 1
PyEq(a, b) ==
    IF a.k \in {"num", "bool"} /\ b.k \in {"num", "bool"}
    THEN a.n = b.n
    ELSE a = b

ColKeys == {"type", "primary_key", "nullable", "default", "autoincrement"}

\* dict equality of two column definitions: same keys, equal values
DictEq(a, b) == \A key \in ColKeys : PyEq(a[key], b[key])

\* str(v)
PyStr(v) ==
    CASE v.k = "str" -> v.s
      [] v.k = "num" -> ToString(v.n)
      [] v.k = "bool" -> IF v.n = 1 THEN "True" ELSE "False"
      [] OTHER -> "None"

UpperChar(c) ==
    CASE c = "a" -> "A" [] c = "b" -> "B" [] c = "c" -> "C" [] c = "d" -> "D"
      [] c = "e" -> "E" [] c = "f" -> "F" [] c = "g" -> "G" [] c = "h" -> "H"
      [] c = "i" -> "I" [] c = "j" -> "J" [] c = "k" -> "K" [] c = "l" -> "L"
      [] c = "m" -> "M" [] c = "n" -> "N" [] c = "o" -> "O" [] c = "p" -> "P"
      [] c = "q" -> "Q" [] c = "r" -> "R" [] c = "s" -> "S" [] c = "t" -> "T"
      [] c = "u" -> "U" [] c = "v" -> "V" [] c = "w" -> "W" [] c = "x" -> "X"
      [] c = "y" -> "Y" [] c = "z" -> "Z" [] OTHER -> c

RECURSIVE Upper(_)
Upper(t) ==
    IF Len(t) = 0 THEN ""
    ELSE UpperChar(SubSeq(t, 1, 1)) \o Upper(SubSeq(t, 2, Len(t)))

StartsWith(t, prefix) ==
    Len(t) >= Len(prefix) /\ SubSeq(t, 1, Len(prefix)) = prefix

RECURSIVE Join(_, _)
Join(lines, sep) ==
    IF Len(lines) = 0 THEN ""
    ELSE IF Len(lines) = 1 THEN lines[1]
    ELSE lines[1] \o sep \o Join(Tail(lines), sep)

RECURSIVE Flatten(_)
Flatten(seqs) ==
    IF Len(seqs) = 0 THEN <<>> ELSE Head(seqs) \o Flatten(Tail(seqs))

Reversed(q) == [i \in 1..Len(q) |-> q[Len(q) + 1 - i]]

\* every string the program sorts, in code-point order
StrOrder ==
    <<"", "a", "add_column", "alter_column", "b", "create_table",
      "drop_column", "drop_table", "x">>

\* sorted(S)
Sorted(S) ==
    LET InS(e) == e \in S
    IN SelectSeq(StrOrder, InS)

-----------------------------------------------------------------------------
(* class Operation *)

Operation(op_type, table, column, payload, destructive) ==
    [op_type |-> op_type, table |-> table, column |-> column,
     payload |-> payload, destructive |-> destructive]

NoPayload == <<>>

\* bool(op.column): None and the empty string are both falsy
ColumnTruthy(column) == column # None /\ column[1] # ""

\* op.column or ""
ColumnOrEmpty(column) == IF ColumnTruthy(column) THEN column[1] ELSE ""

\* f"{op.column}"
ColumnStr(column) == IF column = None THEN "None" ELSE column[1]

-----------------------------------------------------------------------------
(* column_sql *)

Q(name) == "\"" \o name \o "\""

\* the default literal, shared by column_sql and the postgres emitters
DefaultSql(default_val) ==
    IF default_val.k = "str" /\ ~StartsWith(Upper(default_val.s), "CURRENT_")
    THEN "'" \o default_val.s \o "'"
    ELSE PyStr(default_val)

HasDefault(col_def) ==
    col_def["default"].k # "absent" /\ ~IsNone(col_def["default"])

column_sql_parts(col_name, col_def, dialect) ==
    <<Q(col_name), PyStr(col_def["type"])>>
    \o (IF Truthy(Get(col_def, "primary_key")) THEN <<"PRIMARY KEY">> ELSE <<>>)
    \o (IF IsFalse(Get(col_def, "nullable")) THEN <<"NOT NULL">> ELSE <<>>)
    \o (IF HasDefault(col_def)
        THEN <<"DEFAULT " \o DefaultSql(col_def["default"])>> ELSE <<>>)
    \o (IF dialect = "sqlite" /\ Truthy(Get(col_def, "autoincrement"))
        THEN <<"AUTOINCREMENT">> ELSE <<>>)

column_sql(col_name, col_def, dialect) ==
    Join(column_sql_parts(col_name, col_def, dialect), " ")

-----------------------------------------------------------------------------
(* diff_schemas *)


\* AlterDestructive without the nullability rule
AlterDestructiveTypeOnly(src_def, tgt_def) ==
    ~PyEq(Get(src_def, "type"), Get(tgt_def, "type"))

AlterDestructive(src_def, tgt_def) ==
    \/ Truthy(GetOrTrue(src_def, "nullable")) /\ IsFalse(Get(tgt_def, "nullable"))
    \/ ~PyEq(Get(src_def, "type"), Get(tgt_def, "type"))

CreateOps(src_tables, tgt_tables) ==
    LET names == Sorted((DOMAIN tgt_tables) \ (DOMAIN src_tables))
    IN [i \in 1..Len(names) |->
          Operation("create_table", names[i], None, tgt_tables[names[i]], FALSE)]

DropOps(src_tables, tgt_tables) ==
    LET names == Sorted((DOMAIN src_tables) \ (DOMAIN tgt_tables))
    IN [i \in 1..Len(names) |->
          Operation("drop_table", names[i], None, NoPayload, TRUE)]

AddColumnOps(table, src_cols, tgt_cols) ==
    LET names == Sorted((DOMAIN tgt_cols) \ (DOMAIN src_cols))
    IN [i \in 1..Len(names) |->
          Operation("add_column", table, Some(names[i]),
                    [column_def |-> tgt_cols[names[i]]], FALSE)]

DropColumnOps(table, src_cols, tgt_cols) ==
    LET names == Sorted((DOMAIN src_cols) \ (DOMAIN tgt_cols))
    IN [i \in 1..Len(names) |->
          Operation("drop_column", table, Some(names[i]), NoPayload, TRUE)]


\* AlterColumnOps without the comparison of the two definitions
AlterColumnOpsUnfiltered(table, src_cols, tgt_cols) ==
    LET names == Sorted((DOMAIN src_cols) \cap (DOMAIN tgt_cols))
    IN [i \in 1..Len(names) |->
          Operation("alter_column", table, Some(names[i]),
                    [from |-> src_cols[names[i]], to |-> tgt_cols[names[i]]],
                    AlterDestructive(src_cols[names[i]], tgt_cols[names[i]]))]

AlterColumnOps(table, src_cols, tgt_cols) ==
    LET names == Sorted((DOMAIN src_cols) \cap (DOMAIN tgt_cols))
    IN Flatten([i \in 1..Len(names) |->
          LET src_def == src_cols[names[i]]
              tgt_def == tgt_cols[names[i]]
          IN IF ~DictEq(src_def, tgt_def)
             THEN <<Operation("alter_column", table, Some(names[i]),
                              [from |-> src_def, to |-> tgt_def],
                              AlterDestructive(src_def, tgt_def))>>
             ELSE <<>>])


\* TableBlock with the drop_column loop ahead of the add_column loop
TableBlockDropsFirst(table, src_cols, tgt_cols) ==
    DropColumnOps(table, src_cols, tgt_cols)
    \o AddColumnOps(table, src_cols, tgt_cols)
    \o AlterColumnOps(table, src_cols, tgt_cols)

TableBlock(table, src_cols, tgt_cols) ==
    AddColumnOps(table, src_cols, tgt_cols)
    \o DropColumnOps(table, src_cols, tgt_cols)
    \o AlterColumnOps(table, src_cols, tgt_cols)

ColumnOps(src_tables, tgt_tables) ==
    LET names == Sorted((DOMAIN src_tables) \cap (DOMAIN tgt_tables))
    IN Flatten([i \in 1..Len(names) |->
          TableBlock(names[i], src_tables[names[i]].columns,
                     tgt_tables[names[i]].columns)])

diff_schemas(src, tgt) ==
    CreateOps(src.tables, tgt.tables)
    \o DropOps(src.tables, tgt.tables)
    \o ColumnOps(src.tables, tgt.tables)

-----------------------------------------------------------------------------
(* Dialect emitters *)

AlterPrefix(op) ==
    "ALTER TABLE " \o Q(op.table) \o " ALTER COLUMN " \o Q(ColumnStr(op.column))

\* pg_up_sql, alter_column branch: built from the "to" definition
pg_up_alter(op) ==
    LET to_def == op.payload.to
    IN <<AlterPrefix(op) \o " TYPE " \o PyStr(to_def["type"]) \o ";",
         IF Truthy(GetOrTrue(to_def, "nullable"))
         THEN AlterPrefix(op) \o " DROP NOT NULL;"
         ELSE AlterPrefix(op) \o " SET NOT NULL;",
         IF HasDefault(to_def)
         THEN AlterPrefix(op) \o " SET DEFAULT " \o DefaultSql(to_def["default"]) \o ";"
         ELSE AlterPrefix(op) \o " DROP DEFAULT;">>

\* pg_down_sql, alter_column branch: built from the "from" definition
pg_down_alter(op) ==
    LET from_def == op.payload.from
    IN <<AlterPrefix(op) \o " TYPE " \o PyStr(from_def["type"]) \o ";",
         IF Truthy(GetOrTrue(from_def, "nullable"))
         THEN AlterPrefix(op) \o " DROP NOT NULL;"
         ELSE AlterPrefix(op) \o " SET NOT NULL;",
         IF HasDefault(from_def)
         THEN AlterPrefix(op) \o " SET DEFAULT " \o DefaultSql(from_def["default"]) \o ";"
         ELSE AlterPrefix(op) \o " DROP DEFAULT;">>

create_table_sql(op, dialect) ==
    LET cols == op.payload.columns
        names == Sorted(DOMAIN cols)
        col_sql == Join([i \in 1..Len(names) |->
                           column_sql(names[i], cols[names[i]], dialect)], ",\n  ")
    IN "CREATE TABLE " \o Q(op.table) \o " (\n  " \o col_sql \o "\n);"

pg_up_sql(op) ==
    CASE op.op_type = "create_table" -> <<create_table_sql(op, "postgres")>>
      [] op.op_type = "drop_table" -> <<"DROP TABLE " \o Q(op.table) \o ";">>
      [] op.op_type = "add_column" ->
           <<"ALTER TABLE " \o Q(op.table) \o " ADD COLUMN "
             \o column_sql(ColumnOrEmpty(op.column), op.payload.column_def, "postgres")
             \o ";">>
      [] op.op_type = "drop_column" ->
           <<"ALTER TABLE " \o Q(op.table) \o " DROP COLUMN "
             \o Q(ColumnStr(op.column)) \o ";">>
      [] op.op_type = "alter_column" -> pg_up_alter(op)
      [] OTHER -> <<"-- unsupported operation: " \o op.op_type>>

pg_down_sql(op) ==
    CASE op.op_type = "create_table" -> <<"DROP TABLE " \o Q(op.table) \o ";">>
      [] op.op_type = "drop_table" ->
           <<"-- manual rollback required: recreate dropped table " \o Q(op.table)>>
      [] op.op_type = "add_column" ->
           <<"ALTER TABLE " \o Q(op.table) \o " DROP COLUMN "
             \o Q(ColumnStr(op.column)) \o ";">>
      [] op.op_type = "drop_column" ->
           <<"-- manual rollback required: re-add dropped column "
             \o Q(op.table \o "." \o ColumnStr(op.column))>>
      [] op.op_type = "alter_column" -> pg_down_alter(op)
      [] OTHER -> <<"-- unsupported operation: " \o op.op_type>>


\* sqlite_up_sql handing every operation to the postgres emitter
sqlite_up_as_postgres(op) == pg_up_sql(op)

sqlite_up_sql(op) ==
    CASE op.op_type = "create_table" -> <<create_table_sql(op, "sqlite")>>
      [] op.op_type = "drop_table" -> <<"DROP TABLE " \o Q(op.table) \o ";">>
      [] op.op_type = "add_column" ->
           <<"ALTER TABLE " \o Q(op.table) \o " ADD COLUMN "
             \o column_sql(ColumnOrEmpty(op.column), op.payload.column_def, "sqlite")
             \o ";">>
      [] op.op_type \in {"drop_column", "alter_column"} ->
           <<"-- manual action required in sqlite: " \o op.op_type \o " on "
             \o Q(op.table \o "." \o ColumnStr(op.column))>>
      [] OTHER -> <<"-- unsupported operation: " \o op.op_type>>

sqlite_down_sql(op) ==
    CASE op.op_type = "create_table" -> <<"DROP TABLE " \o Q(op.table) \o ";">>
      [] op.op_type = "drop_table" ->
           <<"-- manual rollback required: recreate dropped table " \o Q(op.table)>>
      [] op.op_type = "add_column" ->
           <<"-- manual rollback required in sqlite: drop column "
             \o Q(op.table \o "." \o ColumnStr(op.column))>>
      [] op.op_type \in {"drop_column", "alter_column"} ->
           <<"-- manual rollback required in sqlite: " \o op.op_type \o " on "
             \o Q(op.table \o "." \o ColumnStr(op.column))>>
      [] OTHER -> <<"-- unsupported operation: " \o op.op_type>>

up_sql(op, dialect) ==
    IF dialect = "postgres" THEN pg_up_sql(op) ELSE sqlite_up_sql(op)

down_sql(op, dialect) ==
    IF dialect = "postgres" THEN pg_down_sql(op) ELSE sqlite_down_sql(op)

-----------------------------------------------------------------------------
(* render_sql and dry_run_summary *)

\* A rendered line is [text, op]: op is the index of the operation whose
\* emitter produced the line, 0 for the lines render_sql adds itself.
Line(text, i) == [text |-> text, op |-> i]

Tagged(stmts, i) == [j \in 1..Len(stmts) |-> Line(stmts[j], i)]

up_lines(ops, dialect) ==
    Flatten([i \in 1..Len(ops) |-> Tagged(up_sql(ops[i], dialect), i)])

down_lines(ops, dialect) ==
    Flatten([i \in 1..Len(ops) |-> Tagged(down_sql(ops[i], dialect), i)])


\* the DOWN section without reversed()
DownSectionUnreversed(ops, dialect) == down_lines(ops, dialect)

DownSection(ops, dialect) == Reversed(down_lines(ops, dialect))

render_lines(ops, dialect) ==
    <<Line("-- Generated by database-migration-generator", 0), Line("-- UP", 0)>>
    \o up_lines(ops, dialect)
    \o <<Line("", 0), Line("-- DOWN", 0)>>
    \o DownSection(ops, dialect)
    \o <<Line("", 0)>>

Texts(lines) == [i \in 1..Len(lines) |-> lines[i].text]

render_sql(ops, dialect) == Join(Texts(render_lines(ops, dialect)), "\n")


\* by_type after the loop over ops
RECURSIVE by_type(_)
by_type(ops) ==
    IF Len(ops) = 0 THEN <<>>
    ELSE LET rest == by_type(SubSeq(ops, 1, Len(ops) - 1))
             key == ops[Len(ops)].op_type
             old == IF key \in DOMAIN rest THEN rest[key] ELSE 0
         IN [t \in (DOMAIN rest) \cup {key} |->
               IF t = key THEN old + 1 ELSE rest[t]]

RECURSIVE destructive_count(_)
destructive_count(ops) ==
    IF Len(ops) = 0 THEN 0
    ELSE destructive_count(Tail(ops)) + (IF Head(ops).destructive THEN 1 ELSE 0)

\* dry_run_lines walking the kinds in descending order
dry_run_lines_descending(ops) ==
    LET counts == by_type(ops)
        keys == Reversed(Sorted(DOMAIN counts))
    IN <<"Dry-run summary:", "  total_operations: " \o ToString(Len(ops))>>
       \o [i \in 1..Len(keys) |-> "  " \o keys[i] \o ": " \o ToString(counts[keys[i]])]
       \o <<"  destructive_operations: " \o ToString(destructive_count(ops))>>

dry_run_lines(ops) ==
    LET counts == by_type(ops)
        keys == Sorted(DOMAIN counts)
    IN <<"Dry-run summary:", "  total_operations: " \o ToString(Len(ops))>>
       \o [i \in 1..Len(keys) |-> "  " \o keys[i] \o ": " \o ToString(counts[keys[i]])]
       \o <<"  destructive_operations: " \o ToString(destructive_count(ops))>>

dry_run_summary(ops) == Join(dry_run_lines(ops), "\n")

-----------------------------------------------------------------------------
(* load_schema *)

\* the (table, column) pairs whose definition has no "type"
MissingType(tables) ==
    {tc \in (DOMAIN tables) \X {"", "x"} :
        /\ tc[2] \in DOMAIN tables[tc[1]].columns
        /\ tables[tc[1]].columns[tc[2]]["type"].k = "absent"}

\* the messages load_schema can raise for a file; empty when it returns
load_errors(path) ==
    LET f == files[path]
    IN CASE f.status = "missing" -> {"schema file not found: " \o path}
         [] f.status = "no_tables" -> {path \o " must contain object key 'tables'"}
         [] OTHER ->
              {"column '" \o tc[1] \o "." \o tc[2] \o "' missing 'type'" :
                 tc \in MissingType(f.tables)}

load_schema(path) == [tables |-> files[path].tables]

-----------------------------------------------------------------------------
(* main *)

destructive_ops(ops) ==
    LET IsDestructive(op) == op.destructive
    IN SelectSeq(ops, IsDestructive)

policy_line(op) ==
    "  - " \o op.op_type \o ": " \o op.table
    \o (IF ColumnTruthy(op.column) THEN "." \o op.column[1] ELSE "")

Finish(code) ==
    /\ pc' = "done"
    /\ exit_code' = Some(code)

\* lines 277-282, a file fails to load: the source file is loaded first
LoadFail ==
    /\ pc = "start"
    /\ \E msg \in IF load_errors(args.from_file) # {}
                  THEN load_errors(args.from_file)
                  ELSE load_errors(args.to_file) :
          stderr' = Append(stderr, "Error: " \o msg)
    /\ Finish(1)
    /\ UNCHANGED <<args, files, source, target, operations, output,
                   output_lines, stdout, out_file, calls>>

\* lines 277-279, both files load
LoadOk ==
    /\ pc = "start"
    /\ load_errors(args.from_file) = {}
    /\ load_errors(args.to_file) = {}
    /\ source' = load_schema(args.from_file)
    /\ target' = load_schema(args.to_file)
    /\ pc' = "loaded"
    /\ UNCHANGED <<args, files, operations, output, output_lines, stdout,
                   stderr, out_file, exit_code, calls>>

\* line 284
Diff ==
    /\ pc = "loaded"
    /\ operations' = diff_schemas(source, target)
    /\ pc' = "diffed"
    /\ UNCHANGED <<args, files, source, target, output, output_lines, stdout,
                   stderr, out_file, exit_code, calls>>

PolicyViolated ==
    destructive_ops(operations) # <<>> /\ ~args.allow_destructive

\* lines 286-292
PolicyHalt ==
    /\ pc = "diffed"
    /\ PolicyViolated
    /\ stderr' = stderr
         \o <<"Error: destructive operations detected. Re-run with --allow-destructive.">>
         \o [i \in 1..Len(destructive_ops(operations)) |->
               policy_line(destructive_ops(operations)[i])]
    /\ Finish(2)
    /\ UNCHANGED <<args, files, source, target, operations, output,
                   output_lines, stdout, out_file, calls>>

\* lines 294-295
DryRun ==
    /\ pc = "diffed"
    /\ ~PolicyViolated
    /\ args.dry_run
    /\ output' = dry_run_summary(operations)
    /\ output_lines' = Tagged(dry_run_lines(operations), 0)
    /\ calls' = [calls EXCEPT !.dry_run_summary = @ + 1]
    /\ pc' = "rendered"
    /\ UNCHANGED <<args, files, source, target, operations, stdout, stderr,
                   out_file, exit_code>>

\* lines 296-297
Render ==
    /\ pc = "diffed"
    /\ ~PolicyViolated
    /\ ~args.dry_run
    /\ output' = render_sql(operations, args.dialect)
    /\ output_lines' = render_lines(operations, args.dialect)
    /\ calls' = [calls EXCEPT !.render_sql = @ + 1,
                              !.emitters = @ + 2 * Len(operations)]
    /\ pc' = "rendered"
    /\ UNCHANGED <<args, files, source, target, operations, stdout, stderr,
                   out_file, exit_code>>

\* bool(args.out)
OutGiven == args.out # None /\ args.out[1] # ""

\* lines 299-300, 303
WriteOut ==
    /\ pc = "rendered"
    /\ OutGiven
    /\ out_file' = Some(output \o "\n")
    /\ Finish(0)
    /\ UNCHANGED <<args, files, source, target, operations, output,
                   output_lines, stdout, stderr, calls>>

\* lines 301-303
PrintOut ==
    /\ pc = "rendered"
    /\ ~OutGiven
    /\ stdout' = stdout \o output \o "\n"
    /\ Finish(0)
    /\ UNCHANGED <<args, files, source, target, operations, output,
                   output_lines, stderr, out_file, calls>>

Next ==
    \/ LoadFail
    \/ LoadOk
    \/ Diff
    \/ PolicyHalt
    \/ DryRun
    \/ Render
    \/ WriteOut
    \/ PrintOut

-----------------------------------------------------------------------------
(* The inputs: command lines and schema files *)

ColDef(type, primary_key, nullable, default, autoincrement) ==
    [type |-> type, primary_key |-> primary_key, nullable |-> nullable,
     default |-> default, autoincrement |-> autoincrement]

\* the two definitions the multi-table schemas are built from
BasicDefs ==
    {ColDef(JStr("INTEGER"), JTrue, JFalse, Absent, JTrue),
     ColDef(JStr("TEXT"), Absent, Absent, JStr("x"), Absent)}

Nullables == {Absent, JNull, JTrue, JFalse}

Defaults ==
    {Absent, JNull, JTrue, JStr("x"), JStr("current_date")}
    \cup {JNum(i) : i \in 1..MaxDefault}

\* every combination of type, nullable and default
AllDefs ==
    {ColDef(JStr(t), Absent, n, d, Absent) :
        t \in {"INTEGER", "TEXT"}, n \in Nullables, d \in Defaults}

TableNames == {"a", "b"}
ColNames == {"", "x"}

Tables(names, defs) ==
    {[columns |-> c] : c \in UNION {[S -> defs] : S \in SUBSET names}}

Schemas(tnames, cnames, defs) ==
    UNION {[S -> Tables(cnames, defs)] : S \in SUBSET tnames}

OkFile(tables) == [status |-> "ok", tables |-> tables]

RECURSIVE TotalCols(_)
TotalCols(tables) ==
    IF DOMAIN tables = {} THEN 0
    ELSE LET t == CHOOSE u \in DOMAIN tables : TRUE
         IN Cardinality(DOMAIN tables[t].columns)
            + TotalCols([u \in (DOMAIN tables) \ {t} |-> tables[u]])

\* schemas of up to two tables and up to MaxCols columns
StructFiles ==
    {OkFile(t) : t \in {u \in Schemas(TableNames, ColNames, BasicDefs) :
                           TotalCols(u) <= MaxCols}}

\* schemas of one table with one column, over every definition
ColumnFiles ==
    {OkFile([a |-> [columns |-> [x |-> d]]]) : d \in AllDefs}

\* files load_schema rejects, and one it accepts
OtherFiles ==
    {[status |-> "missing", tables |-> <<>>],
     [status |-> "no_tables", tables |-> <<>>],
     OkFile([a |-> [columns |-> [x |-> ColDef(Absent, Absent, JTrue, Absent, Absent)]]]),
     OkFile([a |-> [columns |-> <<>>]])}

FilePairs ==
    (StructFiles \X StructFiles)
    \cup (ColumnFiles \X ColumnFiles)
    \cup (OtherFiles \X OtherFiles)

ArgSets ==
    [from_file : {"from.json"}, to_file : {"to.json"},
     dialect : {"postgres", "sqlite"}, out : {None, Some("migration.sql")},
     dry_run : BOOLEAN, allow_destructive : BOOLEAN]

Init ==
    /\ pc = "start"
    /\ args \in ArgSets
    /\ \E p \in FilePairs :
          files = [f \in {"from.json", "to.json"} |->
                     IF f = "from.json" THEN p[1] ELSE p[2]]
    /\ source = None
    /\ target = None
    /\ operations = <<>>
    /\ output = ""
    /\ output_lines = <<>>
    /\ stdout = ""
    /\ stderr = <<>>
    /\ out_file = None
    /\ exit_code = None
    /\ calls = [render_sql |-> 0, dry_run_summary |-> 0, emitters |-> 0]

Spec == Init /\ [][Next]_vars

-----------------------------------------------------------------------------
(* Vocabulary of the properties *)

\* diff_schemas has run
DiffDone == pc \in {"diffed", "rendered"} \/ (pc = "done" /\ exit_code # Some(1))

\* render_sql has run
SqlRendered == calls.render_sql = 1

\* dry_run_summary has run
SummaryMade == calls.dry_run_summary = 1

OpIdx == 1..Len(operations)

KindsOf(ops) == {ops[i].op_type : i \in 1..Len(ops)}

Rank(name) == CHOOSE i \in 1..Len(StrOrder) : StrOrder[i] = name

LexLess(u, v) ==
    \E i \in 1..4 : u[i] < v[i] /\ \A j \in 1..(i - 1) : u[j] = v[j]

\* the place of an operation in the order section 4.1 prescribes
OrderKey(op) ==
    CASE op.op_type = "create_table" -> <<1, Rank(op.table), 0, 0>>
      [] op.op_type = "drop_table" -> <<2, Rank(op.table), 0, 0>>
      [] op.op_type = "add_column" -> <<3, Rank(op.table), 1, Rank(op.column[1])>>
      [] op.op_type = "drop_column" -> <<3, Rank(op.table), 2, Rank(op.column[1])>>
      [] op.op_type = "alter_column" -> <<3, Rank(op.table), 3, Rank(op.column[1])>>

Contains(text, pat) ==
    \E i \in 1..(Len(text) - Len(pat) + 1) : SubSeq(text, i, i + Len(pat) - 1) = pat

IsComment(text) == StartsWith(text, "--") /\ ~Contains(text, "\n")

\* the first line after "-- UP" that render_sql adds itself: the blank line
Separator ==
    CHOOSE k \in 3..Len(output_lines) :
        output_lines[k].op = 0 /\ \A j \in 3..(k - 1) : output_lines[j].op # 0

UpIdx == 3..(Separator - 1)
DownIdx == (Separator + 2)..(Len(output_lines) - 1)

\* the texts of the lines of a section that operation i produced, in order
LinesOf(idx, i) ==
    LET OfOp(k) == k \in idx /\ output_lines[k].op = i
        ks == SelectSeq([k \in 1..Len(output_lines) |-> k], OfOp)
    IN [j \in 1..Len(ks) |-> output_lines[ks[j]].text]

Columns(schema) == [t \in DOMAIN schema.tables |-> schema.tables[t].columns]

-----------------------------------------------------------------------------
(* C1 *)

ExpectedPolicyLine(op) ==
    "  - " \o op.op_type \o ": " \o op.table
    \o (IF op.column # None THEN "." \o op.column[1] ELSE "")

ExpectedListing ==
    LET idx == SelectSeq([i \in 1..Len(operations) |-> i],
                         LAMBDA i : operations[i].destructive)
    IN [j \in 1..Len(idx) |-> ExpectedPolicyLine(operations[idx[j]])]

\* C1: when the diff holds a destructive operation and allow_destructive is
\* not set, main ends with exit code 2 before anything is rendered or
\* written, and the listing on stderr has one line per destructive operation,
\* in diff order, "<kind>: <table>" followed by ".<column>" when the
\* operation has a column.
C1_PolicyHaltListsEveryOffender ==
    (DiffDone /\ ~args.allow_destructive
        /\ \E i \in OpIdx : operations[i].destructive)
    => /\ pc \in {"diffed", "done"}
       /\ calls.render_sql = 0 /\ calls.dry_run_summary = 0 /\ calls.emitters = 0
       /\ stdout = "" /\ out_file = None /\ output = ""
       /\ pc = "done" =>
            /\ exit_code = Some(2)
            /\ Len(stderr) = 1 + Len(ExpectedListing)
            /\ SubSeq(stderr, 2, Len(stderr)) = ExpectedListing

-----------------------------------------------------------------------------
(* C2 *)

\* C2: the operations of the diff are in the prescribed order: create_table
\* by table, then drop_table by table, then one block per common table by
\* table, each block add_column, drop_column, alter_column, each by column.
C2_DiffOrder ==
    DiffDone =>
        \A i, j \in OpIdx :
            i < j => LexLess(OrderKey(operations[i]), OrderKey(operations[j]))

\* a create, a drop, and a block mixing kinds; and two blocks
C2_Witness ==
    /\ DiffDone
    /\ \E i, j \in OpIdx :
          /\ i < j
          /\ operations[i].op_type = "add_column"
          /\ operations[j].op_type = "alter_column"
          /\ operations[i].table = operations[j].table
    /\ \E i, j \in OpIdx :
          /\ operations[i].op_type = "drop_column"
          /\ operations[j].op_type = "add_column"
          /\ operations[i].table = "a" /\ operations[j].table = "b"

-----------------------------------------------------------------------------
(* C3 *)

\* the classification of section 4.1, read off the two definitions
Tightens(from_def, to_def) ==
    from_def.nullable \in {JTrue, Absent} /\ to_def.nullable = JFalse

\* C3: an operation is destructive exactly when it is a drop_table, a
\* drop_column, or an alter_column whose type string changes or whose
\* nullability goes from true-or-absent to false.
C3_DestructiveClassification ==
    DiffDone =>
        \A i \in OpIdx :
            LET op == operations[i]
            IN op.destructive <=>
                 \/ op.op_type \in {"drop_table", "drop_column"}
                 \/ /\ op.op_type = "alter_column"
                    /\ \/ op.payload.from.type.s # op.payload.to.type.s
                       \/ Tightens(op.payload.from, op.payload.to)

\* an alter_column that is destructive by nullability alone
C3_Witness ==
    /\ DiffDone
    /\ \E i \in OpIdx :
          /\ operations[i].op_type = "alter_column"
          /\ operations[i].destructive
          /\ operations[i].payload.from.type = operations[i].payload.to.type
          /\ operations[i].payload.from.nullable = Absent

-----------------------------------------------------------------------------
(* C4 *)

\* C4: the UP section lists the operations in diff order and the DOWN
\* section lists them in the reverse order, each operation's statements
\* together: a DOWN statement of a later operation precedes every DOWN
\* statement of an earlier one.
C4_DownReversesUp ==
    SqlRendered =>
        /\ output_lines[2].text = "-- UP"
        /\ output_lines[Separator + 1].text = "-- DOWN"
        /\ {output_lines[k].op : k \in UpIdx} = OpIdx
        /\ {output_lines[k].op : k \in DownIdx} = OpIdx
        /\ \A k, l \in UpIdx :
              k < l => output_lines[k].op <= output_lines[l].op
        /\ \A m, n \in DownIdx :
              m < n => output_lines[m].op >= output_lines[n].op

\* a postgres migration of several operations, one of them three statements
C4_Witness ==
    /\ SqlRendered
    /\ args.dialect = "postgres"
    /\ Len(operations) >= 3
    /\ \E i \in OpIdx : i < Len(operations) /\ operations[i].op_type = "alter_column"

-----------------------------------------------------------------------------
(* C5 *)

\* C5: for sqlite, drop_column and alter_column yield one comment line, up
\* and down, and no statement of a sqlite migration that is not a comment
\* drops or alters a column.
C5_SqliteCommentOnly ==
    /\ DiffDone =>
          \A i \in OpIdx :
              operations[i].op_type \in {"drop_column", "alter_column"} =>
                  /\ Len(sqlite_up_sql(operations[i])) = 1
                  /\ IsComment(sqlite_up_sql(operations[i])[1])
                  /\ Len(sqlite_down_sql(operations[i])) = 1
                  /\ IsComment(sqlite_down_sql(operations[i])[1])
    /\ (SqlRendered /\ args.dialect = "sqlite") =>
          \A k \in UpIdx \cup DownIdx :
              ~IsComment(output_lines[k].text) =>
                  /\ operations[output_lines[k].op].op_type
                        \notin {"drop_column", "alter_column"}
                  /\ ~Contains(output_lines[k].text, "DROP COLUMN")
                  /\ ~Contains(output_lines[k].text, "ALTER COLUMN")

\* a sqlite migration with a drop_column and an alter_column
C5_Witness ==
    /\ SqlRendered
    /\ args.dialect = "sqlite"
    /\ {"drop_column", "alter_column", "add_column"} \subseteq KindsOf(operations)

-----------------------------------------------------------------------------
(* C6 *)

\* C6: a schema diffed against itself yields no operation, and a table with
\* the same column mapping in both schemas has no operation.
C6_IdenticalYieldsNothing ==
    DiffDone =>
        /\ source = target => operations = <<>>
        /\ \A t \in (DOMAIN source.tables) \cap (DOMAIN target.tables) :
              source.tables[t].columns = target.tables[t].columns =>
                  \A i \in OpIdx : operations[i].table # t

\* a table of two columns unchanged next to a table that changed
C6_Witness ==
    /\ DiffDone
    /\ "a" \in (DOMAIN source.tables) \cap (DOMAIN target.tables)
    /\ source.tables["a"].columns = target.tables["a"].columns
    /\ Cardinality(DOMAIN source.tables["a"].columns) = 2
    /\ operations # <<>>

-----------------------------------------------------------------------------
(* C7 *)

KindOrder ==
    <<"add_column", "alter_column", "create_table", "drop_column", "drop_table">>

CountOf(kind) == Cardinality({i \in OpIdx : operations[i].op_type = kind})

ExpectedCountLines ==
    LET Occurs(kind) == CountOf(kind) > 0
        kinds == SelectSeq(KindOrder, Occurs)
    IN [j \in 1..Len(kinds) |->
          "  " \o kinds[j] \o ": " \o ToString(CountOf(kinds[j]))]

RECURSIVE SumCounts(_)
SumCounts(kinds) ==
    IF kinds = {} THEN 0
    ELSE LET kind == CHOOSE e \in kinds : TRUE
         IN CountOf(kind) + SumCounts(kinds \ {kind})

\* C7: the summary gives the length of the list, one count line per kind
\* that occurs, in ascending kind order, and the number of destructive
\* operations; no emitter runs.
C7_DryRunSummary ==
    SummaryMade =>
        /\ Texts(output_lines) =
              <<"Dry-run summary:",
                "  total_operations: " \o ToString(Len(operations))>>
              \o ExpectedCountLines
              \o <<"  destructive_operations: "
                   \o ToString(Cardinality({i \in OpIdx : operations[i].destructive}))>>
        /\ output = Join(Texts(output_lines), "\n")
        /\ SumCounts(KindsOf(operations)) = Len(operations)
        /\ calls.emitters = 0 /\ calls.render_sql = 0

\* a summary over three kinds, one of them twice, with a destructive drop
C7_Witness ==
    /\ SummaryMade
    /\ Cardinality(KindsOf(operations)) >= 3
    /\ \E kind \in KindsOf(operations) : CountOf(kind) = 2
    /\ \E i \in OpIdx : operations[i].destructive
    /\ \E i \in OpIdx : ~operations[i].destructive

-----------------------------------------------------------------------------
(* C8 *)

ColumnPrefix(op) ==
    "ALTER TABLE \"" \o op.table \o "\" ALTER COLUMN \"" \o op.column[1] \o "\""

\* C8: in a postgres migration the DOWN statements of an alter_column come
\* in the order of UP: the TYPE statement, then SET/DROP NOT NULL, then
\* SET/DROP DEFAULT.
C8_DownKeepsStatementOrder ==
    (SqlRendered /\ args.dialect = "postgres") =>
        \A i \in OpIdx :
            operations[i].op_type = "alter_column" =>
                LET down == LinesOf(DownIdx, i)
                    prefix == ColumnPrefix(operations[i])
                IN /\ Len(down) = 3
                   /\ StartsWith(down[1], prefix \o " TYPE ")
                   /\ down[2] \in {prefix \o " SET NOT NULL;",
                                   prefix \o " DROP NOT NULL;"}
                   /\ \/ StartsWith(down[3], prefix \o " SET DEFAULT ")
                      \/ down[3] = prefix \o " DROP DEFAULT;"

-----------------------------------------------------------------------------
(* C9 *)

\* one operation applied to a table-to-columns mapping; ok turns false when
\* the operation names a table or column that is not there, creates one that
\* is, or alters a column whose definition is not the operation's "from"
ApplyOp(st, op) ==
    LET m == st.m
        t == op.table
        c == op.column[1]
        Put(cols) == [u \in (DOMAIN m) \cup {t} |-> IF u = t THEN cols ELSE m[u]]
        Without(dom) == [x \in dom |-> m[t][x]]
    IN CASE op.op_type = "create_table" ->
              [ok |-> st.ok /\ t \notin DOMAIN m, m |-> Put(op.payload.columns)]
         [] op.op_type = "drop_table" ->
              [ok |-> st.ok /\ t \in DOMAIN m,
               m |-> [u \in (DOMAIN m) \ {t} |-> m[u]]]
         [] t \notin DOMAIN m -> [ok |-> FALSE, m |-> m]
         [] op.op_type = "add_column" ->
              [ok |-> st.ok /\ c \notin DOMAIN m[t],
               m |-> Put([x \in (DOMAIN m[t]) \cup {c} |->
                            IF x = c THEN op.payload.column_def ELSE m[t][x]])]
         [] c \notin DOMAIN m[t] -> [ok |-> FALSE, m |-> m]
         [] op.op_type = "drop_column" ->
              [ok |-> st.ok, m |-> Put(Without((DOMAIN m[t]) \ {c}))]
         [] op.op_type = "alter_column" ->
              [ok |-> st.ok /\ m[t][c] = op.payload.from,
               m |-> Put([x \in DOMAIN m[t] |->
                            IF x = c THEN op.payload.to ELSE m[t][x]])]

RECURSIVE ApplyOps(_, _)
ApplyOps(st, ops) ==
    IF Len(ops) = 0 THEN st ELSE ApplyOps(ApplyOp(st, Head(ops)), Tail(ops))

\* C9: the operations of the diff, applied in order to the source's tables,
\* give exactly the target's tables, each operation finding the table or
\* column it names.
C9_DiffReachesTarget ==
    DiffDone =>
        ApplyOps([ok |-> TRUE, m |-> Columns(source)], operations)
            = [ok |-> TRUE, m |-> Columns(target)]

-----------------------------------------------------------------------------
(* C10 *)

NotNullRendered(name, col_def) ==
    \E k \in 1..Len(column_sql_parts(name, col_def, "postgres")) :
        column_sql_parts(name, col_def, "postgres")[k] = "NOT NULL"

\* C10: the postgres alter_column statements say SET NOT NULL exactly when
\* column_sql renders NOT NULL for the same definition ("to" in UP, "from"
\* in DOWN), and DROP NOT NULL otherwise.
C10_NotNullAgreesWithColumnSql ==
    (SqlRendered /\ args.dialect = "postgres") =>
        \A i \in OpIdx :
            operations[i].op_type = "alter_column" =>
                LET op == operations[i]
                    set == ColumnPrefix(op) \o " SET NOT NULL;"
                    drop == ColumnPrefix(op) \o " DROP NOT NULL;"
                    Has(lines, text) == \E k \in 1..Len(lines) : lines[k] = text
                    up == LinesOf(UpIdx, i)
                    down == LinesOf(DownIdx, i)
                IN /\ Has(up, set) <=> NotNullRendered(op.column[1], op.payload.to)
                   /\ Has(up, drop) <=> ~NotNullRendered(op.column[1], op.payload.to)
                   /\ Has(down, set) <=> NotNullRendered(op.column[1], op.payload.from)
                   /\ Has(down, drop) <=> ~NotNullRendered(op.column[1], op.payload.from)

====
